---- MODULE Spec2Model ----
(***************************************************************************)
(* Two-pass assembler of src/assembler.py (class Assembler).               *)
(*                                                                         *)
(* A Python character is modelled as its Unicode code point, ord(c), and a *)
(* Python string as the sequence of the code points of its characters, so  *)
(* that lower(), split(), rstrip(), endswith(), int(s, base),              *)
(* '{:b}'.format and zfill are computed character by character over the    *)
(* whole of Unicode.  Str("lda x") is the string written between the       *)
(* quotes.  A dict is a function whose DOMAIN is its key set.              *)
(***************************************************************************)
EXTENDS Integers, Sequences, FiniteSets, TLC

(***************************************************************************)
(* Bounds of the model.                                                    *)
(***************************************************************************)
MaxLines == 3
MaxReuseLines == 2
MaxRuns == 2

(***************************************************************************)
(* Strings as sequences of code points.                                    *)
(***************************************************************************)
\* the ASCII characters from the space to the tilde in the order of their
\* code points, without the grave accent U+0060
Printable ==
       " !\"#$%&'()*+,-./0123456789:;<=>?@ABCDEFGHIJKLMNOPQRSTUVWXYZ[\\]^_"
    \o "abcdefghijklmnopqrstuvwxyz{|}~"

\* ord(ch) of a character of Printable, of the line feed and of the tab
Ord(ch) ==
    IF ch = "\n" THEN 10
    ELSE IF ch = "\t" THEN 9
    ELSE LET k == CHOOSE n \in 1..Len(Printable) : SubSeq(Printable, n, n) = ch
         IN  IF k <= 64 THEN 31 + k ELSE 32 + k

\* the Python string with the characters of s
Str(s) == [k \in 1..Len(s) |-> Ord(SubSeq(s, k, k))]

Ch_0 == Ord("0")
Ch_1 == Ord("1")
Ch_minus == Ord("-")
Ch_plus == Ord("+")
Ch_underscore == Ord("_")
Comma == Str(",")
Slash == Str("/")

(***************************************************************************)
(* Python string primitives.  The character tables are those of the        *)
(* Unicode database of CPython 3.11 (Unicode 14.0).                        *)
(***************************************************************************)
\* c lies in one of the ranges <<first, last>> of the table
InRanges(c, table) ==
    \E k \in 1..Len(table) : table[k][1] <= c /\ c <= table[k][2]

\* the ranges of the characters str.isspace() accepts, which str.split()
\* and str.rstrip() treat as whitespace
SpaceRanges ==
    <<<<\H0009, \H000D>>, <<\H001C, \H0020>>, <<\H0085, \H0085>>, <<\H00A0, \H00A0>>,
      <<\H1680, \H1680>>, <<\H2000, \H200A>>, <<\H2028, \H2029>>, <<\H202F, \H202F>>,
      <<\H205F, \H205F>>, <<\H3000, \H3000>>>>

\* the digit of value 0 of every run of ten decimal digits int() accepts
DecimalZeros ==
    <<\H0030, \H0660, \H06F0, \H07C0, \H0966, \H09E6, \H0A66, \H0AE6,
      \H0B66, \H0BE6, \H0C66, \H0CE6, \H0D66, \H0DE6, \H0E50, \H0ED0,
      \H0F20, \H1040, \H1090, \H17E0, \H1810, \H1946, \H19D0, \H1A80,
      \H1A90, \H1B50, \H1BB0, \H1C40, \H1C50, \HA620, \HA8D0, \HA900,
      \HA9D0, \HA9F0, \HAA50, \HABF0, \HFF10, \H104A0, \H10D30, \H11066,
      \H110F0, \H11136, \H111D0, \H112F0, \H11450, \H114D0, \H11650, \H116C0,
      \H11730, \H118E0, \H11950, \H11C50, \H11D50, \H11DA0, \H16A60, \H16AC0,
      \H16B50, \H1D7CE, \H1D7D8, \H1D7E2, \H1D7EC, \H1D7F6, \H1E140, \H1E2F0,
      \H1E950, \H1FBF0>>

\* what str.lower() changes from U+00C0 on: <<first, last, step, offset>>
\* adds the offset to every step-th character from first to last (the
\* capital sigma U+03A3 with its non-final form)
LowerRules ==
    <<<<\H00C0, \H00D6, 1, 32>>, <<\H00D8, \H00DE, 1, 32>>,
      <<\H0100, \H012E, 2, 1>>, <<\H0132, \H0136, 2, 1>>,
      <<\H0139, \H0147, 2, 1>>, <<\H014A, \H0176, 2, 1>>,
      <<\H0178, \H0178, 1, -121>>, <<\H0179, \H017D, 2, 1>>,
      <<\H0181, \H0181, 1, 210>>, <<\H0182, \H0184, 2, 1>>,
      <<\H0186, \H0186, 1, 206>>, <<\H0187, \H0187, 1, 1>>,
      <<\H0189, \H018A, 1, 205>>, <<\H018B, \H018B, 1, 1>>,
      <<\H018E, \H018E, 1, 79>>, <<\H018F, \H018F, 1, 202>>,
      <<\H0190, \H0190, 1, 203>>, <<\H0191, \H0191, 1, 1>>,
      <<\H0193, \H0193, 1, 205>>, <<\H0194, \H0194, 1, 207>>,
      <<\H0196, \H0196, 1, 211>>, <<\H0197, \H0197, 1, 209>>,
      <<\H0198, \H0198, 1, 1>>, <<\H019C, \H019C, 1, 211>>,
      <<\H019D, \H019D, 1, 213>>, <<\H019F, \H019F, 1, 214>>,
      <<\H01A0, \H01A4, 2, 1>>, <<\H01A6, \H01A6, 1, 218>>,
      <<\H01A7, \H01A7, 1, 1>>, <<\H01A9, \H01A9, 1, 218>>,
      <<\H01AC, \H01AC, 1, 1>>, <<\H01AE, \H01AE, 1, 218>>,
      <<\H01AF, \H01AF, 1, 1>>, <<\H01B1, \H01B2, 1, 217>>,
      <<\H01B3, \H01B5, 2, 1>>, <<\H01B7, \H01B7, 1, 219>>,
      <<\H01B8, \H01B8, 1, 1>>, <<\H01BC, \H01BC, 1, 1>>,
      <<\H01C4, \H01C4, 1, 2>>, <<\H01C5, \H01C5, 1, 1>>,
      <<\H01C7, \H01C7, 1, 2>>, <<\H01C8, \H01C8, 1, 1>>,
      <<\H01CA, \H01CA, 1, 2>>, <<\H01CB, \H01DB, 2, 1>>,
      <<\H01DE, \H01EE, 2, 1>>, <<\H01F1, \H01F1, 1, 2>>,
      <<\H01F2, \H01F4, 2, 1>>, <<\H01F6, \H01F6, 1, -97>>,
      <<\H01F7, \H01F7, 1, -56>>, <<\H01F8, \H021E, 2, 1>>,
      <<\H0220, \H0220, 1, -130>>, <<\H0222, \H0232, 2, 1>>,
      <<\H023A, \H023A, 1, 10795>>, <<\H023B, \H023B, 1, 1>>,
      <<\H023D, \H023D, 1, -163>>, <<\H023E, \H023E, 1, 10792>>,
      <<\H0241, \H0241, 1, 1>>, <<\H0243, \H0243, 1, -195>>,
      <<\H0244, \H0244, 1, 69>>, <<\H0245, \H0245, 1, 71>>,
      <<\H0246, \H024E, 2, 1>>, <<\H0370, \H0372, 2, 1>>,
      <<\H0376, \H0376, 1, 1>>, <<\H037F, \H037F, 1, 116>>,
      <<\H0386, \H0386, 1, 38>>, <<\H0388, \H038A, 1, 37>>,
      <<\H038C, \H038C, 1, 64>>, <<\H038E, \H038F, 1, 63>>,
      <<\H0391, \H03A1, 1, 32>>, <<\H03A3, \H03AB, 1, 32>>,
      <<\H03CF, \H03CF, 1, 8>>, <<\H03D8, \H03EE, 2, 1>>,
      <<\H03F4, \H03F4, 1, -60>>, <<\H03F7, \H03F7, 1, 1>>,
      <<\H03F9, \H03F9, 1, -7>>, <<\H03FA, \H03FA, 1, 1>>,
      <<\H03FD, \H03FF, 1, -130>>, <<\H0400, \H040F, 1, 80>>,
      <<\H0410, \H042F, 1, 32>>, <<\H0460, \H0480, 2, 1>>,
      <<\H048A, \H04BE, 2, 1>>, <<\H04C0, \H04C0, 1, 15>>,
      <<\H04C1, \H04CD, 2, 1>>, <<\H04D0, \H052E, 2, 1>>,
      <<\H0531, \H0556, 1, 48>>, <<\H10A0, \H10C5, 1, 7264>>,
      <<\H10C7, \H10C7, 1, 7264>>, <<\H10CD, \H10CD, 1, 7264>>,
      <<\H13A0, \H13EF, 1, 38864>>, <<\H13F0, \H13F5, 1, 8>>,
      <<\H1C90, \H1CBA, 1, -3008>>, <<\H1CBD, \H1CBF, 1, -3008>>,
      <<\H1E00, \H1E94, 2, 1>>, <<\H1E9E, \H1E9E, 1, -7615>>,
      <<\H1EA0, \H1EFE, 2, 1>>, <<\H1F08, \H1F0F, 1, -8>>,
      <<\H1F18, \H1F1D, 1, -8>>, <<\H1F28, \H1F2F, 1, -8>>,
      <<\H1F38, \H1F3F, 1, -8>>, <<\H1F48, \H1F4D, 1, -8>>,
      <<\H1F59, \H1F5F, 2, -8>>, <<\H1F68, \H1F6F, 1, -8>>,
      <<\H1F88, \H1F8F, 1, -8>>, <<\H1F98, \H1F9F, 1, -8>>,
      <<\H1FA8, \H1FAF, 1, -8>>, <<\H1FB8, \H1FB9, 1, -8>>,
      <<\H1FBA, \H1FBB, 1, -74>>, <<\H1FBC, \H1FBC, 1, -9>>,
      <<\H1FC8, \H1FCB, 1, -86>>, <<\H1FCC, \H1FCC, 1, -9>>,
      <<\H1FD8, \H1FD9, 1, -8>>, <<\H1FDA, \H1FDB, 1, -100>>,
      <<\H1FE8, \H1FE9, 1, -8>>, <<\H1FEA, \H1FEB, 1, -112>>,
      <<\H1FEC, \H1FEC, 1, -7>>, <<\H1FF8, \H1FF9, 1, -128>>,
      <<\H1FFA, \H1FFB, 1, -126>>, <<\H1FFC, \H1FFC, 1, -9>>,
      <<\H2126, \H2126, 1, -7517>>, <<\H212A, \H212A, 1, -8383>>,
      <<\H212B, \H212B, 1, -8262>>, <<\H2132, \H2132, 1, 28>>,
      <<\H2160, \H216F, 1, 16>>, <<\H2183, \H2183, 1, 1>>,
      <<\H24B6, \H24CF, 1, 26>>, <<\H2C00, \H2C2F, 1, 48>>,
      <<\H2C60, \H2C60, 1, 1>>, <<\H2C62, \H2C62, 1, -10743>>,
      <<\H2C63, \H2C63, 1, -3814>>, <<\H2C64, \H2C64, 1, -10727>>,
      <<\H2C67, \H2C6B, 2, 1>>, <<\H2C6D, \H2C6D, 1, -10780>>,
      <<\H2C6E, \H2C6E, 1, -10749>>, <<\H2C6F, \H2C6F, 1, -10783>>,
      <<\H2C70, \H2C70, 1, -10782>>, <<\H2C72, \H2C72, 1, 1>>,
      <<\H2C75, \H2C75, 1, 1>>, <<\H2C7E, \H2C7F, 1, -10815>>,
      <<\H2C80, \H2CE2, 2, 1>>, <<\H2CEB, \H2CED, 2, 1>>,
      <<\H2CF2, \H2CF2, 1, 1>>, <<\HA640, \HA66C, 2, 1>>,
      <<\HA680, \HA69A, 2, 1>>, <<\HA722, \HA72E, 2, 1>>,
      <<\HA732, \HA76E, 2, 1>>, <<\HA779, \HA77B, 2, 1>>,
      <<\HA77D, \HA77D, 1, -35332>>, <<\HA77E, \HA786, 2, 1>>,
      <<\HA78B, \HA78B, 1, 1>>, <<\HA78D, \HA78D, 1, -42280>>,
      <<\HA790, \HA792, 2, 1>>, <<\HA796, \HA7A8, 2, 1>>,
      <<\HA7AA, \HA7AA, 1, -42308>>, <<\HA7AB, \HA7AB, 1, -42319>>,
      <<\HA7AC, \HA7AC, 1, -42315>>, <<\HA7AD, \HA7AD, 1, -42305>>,
      <<\HA7AE, \HA7AE, 1, -42308>>, <<\HA7B0, \HA7B0, 1, -42258>>,
      <<\HA7B1, \HA7B1, 1, -42282>>, <<\HA7B2, \HA7B2, 1, -42261>>,
      <<\HA7B3, \HA7B3, 1, 928>>, <<\HA7B4, \HA7C2, 2, 1>>,
      <<\HA7C4, \HA7C4, 1, -48>>, <<\HA7C5, \HA7C5, 1, -42307>>,
      <<\HA7C6, \HA7C6, 1, -35384>>, <<\HA7C7, \HA7C9, 2, 1>>,
      <<\HA7D0, \HA7D0, 1, 1>>, <<\HA7D6, \HA7D8, 2, 1>>,
      <<\HA7F5, \HA7F5, 1, 1>>, <<\HFF21, \HFF3A, 1, 32>>,
      <<\H10400, \H10427, 1, 40>>, <<\H104B0, \H104D3, 1, 40>>,
      <<\H10570, \H10594, 2, 39>>, <<\H10571, \H10579, 2, 39>>,
      <<\H1057D, \H10589, 2, 39>>, <<\H1058D, \H10591, 2, 39>>,
      <<\H10595, \H10595, 1, 39>>, <<\H10C80, \H10CB2, 1, 64>>,
      <<\H118A0, \H118BF, 1, 32>>, <<\H16E40, \H16E5F, 1, 32>>,
      <<\H1E900, \H1E921, 1, 34>>>>

\* the ranges of the cased characters that are not case-ignorable
CasedRanges ==
    <<<<\H0041, \H005A>>, <<\H0061, \H007A>>, <<\H00AA, \H00AA>>, <<\H00B5, \H00B5>>,
      <<\H00BA, \H00BA>>, <<\H00C0, \H00D6>>, <<\H00D8, \H00F6>>, <<\H00F8, \H01BA>>,
      <<\H01BC, \H01BF>>, <<\H01C4, \H0293>>, <<\H0295, \H02AF>>, <<\H0370, \H0373>>,
      <<\H0376, \H0377>>, <<\H037B, \H037D>>, <<\H037F, \H037F>>, <<\H0386, \H0386>>,
      <<\H0388, \H038A>>, <<\H038C, \H038C>>, <<\H038E, \H03A1>>, <<\H03A3, \H03F5>>,
      <<\H03F7, \H0481>>, <<\H048A, \H052F>>, <<\H0531, \H0556>>, <<\H0560, \H0588>>,
      <<\H10A0, \H10C5>>, <<\H10C7, \H10C7>>, <<\H10CD, \H10CD>>, <<\H10D0, \H10FA>>,
      <<\H10FD, \H10FF>>, <<\H13A0, \H13F5>>, <<\H13F8, \H13FD>>, <<\H1C80, \H1C88>>,
      <<\H1C90, \H1CBA>>, <<\H1CBD, \H1CBF>>, <<\H1D00, \H1D2B>>, <<\H1D6B, \H1D77>>,
      <<\H1D79, \H1D9A>>, <<\H1E00, \H1F15>>, <<\H1F18, \H1F1D>>, <<\H1F20, \H1F45>>,
      <<\H1F48, \H1F4D>>, <<\H1F50, \H1F57>>, <<\H1F59, \H1F59>>, <<\H1F5B, \H1F5B>>,
      <<\H1F5D, \H1F5D>>, <<\H1F5F, \H1F7D>>, <<\H1F80, \H1FB4>>, <<\H1FB6, \H1FBC>>,
      <<\H1FBE, \H1FBE>>, <<\H1FC2, \H1FC4>>, <<\H1FC6, \H1FCC>>, <<\H1FD0, \H1FD3>>,
      <<\H1FD6, \H1FDB>>, <<\H1FE0, \H1FEC>>, <<\H1FF2, \H1FF4>>, <<\H1FF6, \H1FFC>>,
      <<\H2102, \H2102>>, <<\H2107, \H2107>>, <<\H210A, \H2113>>, <<\H2115, \H2115>>,
      <<\H2119, \H211D>>, <<\H2124, \H2124>>, <<\H2126, \H2126>>, <<\H2128, \H2128>>,
      <<\H212A, \H212D>>, <<\H212F, \H2134>>, <<\H2139, \H2139>>, <<\H213C, \H213F>>,
      <<\H2145, \H2149>>, <<\H214E, \H214E>>, <<\H2160, \H217F>>, <<\H2183, \H2184>>,
      <<\H24B6, \H24E9>>, <<\H2C00, \H2C7B>>, <<\H2C7E, \H2CE4>>, <<\H2CEB, \H2CEE>>,
      <<\H2CF2, \H2CF3>>, <<\H2D00, \H2D25>>, <<\H2D27, \H2D27>>, <<\H2D2D, \H2D2D>>,
      <<\HA640, \HA66D>>, <<\HA680, \HA69B>>, <<\HA722, \HA76F>>, <<\HA771, \HA787>>,
      <<\HA78B, \HA78E>>, <<\HA790, \HA7CA>>, <<\HA7D0, \HA7D1>>, <<\HA7D3, \HA7D3>>,
      <<\HA7D5, \HA7D9>>, <<\HA7F5, \HA7F6>>, <<\HA7FA, \HA7FA>>, <<\HAB30, \HAB5A>>,
      <<\HAB60, \HAB68>>, <<\HAB70, \HABBF>>, <<\HFB00, \HFB06>>, <<\HFB13, \HFB17>>,
      <<\HFF21, \HFF3A>>, <<\HFF41, \HFF5A>>, <<\H10400, \H1044F>>, <<\H104B0, \H104D3>>,
      <<\H104D8, \H104FB>>, <<\H10570, \H1057A>>, <<\H1057C, \H1058A>>, <<\H1058C, \H10592>>,
      <<\H10594, \H10595>>, <<\H10597, \H105A1>>, <<\H105A3, \H105B1>>, <<\H105B3, \H105B9>>,
      <<\H105BB, \H105BC>>, <<\H10C80, \H10CB2>>, <<\H10CC0, \H10CF2>>, <<\H118A0, \H118DF>>,
      <<\H16E40, \H16E7F>>, <<\H1D400, \H1D454>>, <<\H1D456, \H1D49C>>, <<\H1D49E, \H1D49F>>,
      <<\H1D4A2, \H1D4A2>>, <<\H1D4A5, \H1D4A6>>, <<\H1D4A9, \H1D4AC>>, <<\H1D4AE, \H1D4B9>>,
      <<\H1D4BB, \H1D4BB>>, <<\H1D4BD, \H1D4C3>>, <<\H1D4C5, \H1D505>>, <<\H1D507, \H1D50A>>,
      <<\H1D50D, \H1D514>>, <<\H1D516, \H1D51C>>, <<\H1D51E, \H1D539>>, <<\H1D53B, \H1D53E>>,
      <<\H1D540, \H1D544>>, <<\H1D546, \H1D546>>, <<\H1D54A, \H1D550>>, <<\H1D552, \H1D6A5>>,
      <<\H1D6A8, \H1D6C0>>, <<\H1D6C2, \H1D6DA>>, <<\H1D6DC, \H1D6FA>>, <<\H1D6FC, \H1D714>>,
      <<\H1D716, \H1D734>>, <<\H1D736, \H1D74E>>, <<\H1D750, \H1D76E>>, <<\H1D770, \H1D788>>,
      <<\H1D78A, \H1D7A8>>, <<\H1D7AA, \H1D7C2>>, <<\H1D7C4, \H1D7CB>>, <<\H1DF00, \H1DF09>>,
      <<\H1DF0B, \H1DF1E>>, <<\H1E900, \H1E943>>, <<\H1F130, \H1F149>>, <<\H1F150, \H1F169>>,
      <<\H1F170, \H1F189>>>>

\* the ranges of the case-ignorable characters
CaseIgnorableRanges ==
    <<<<\H0027, \H0027>>, <<\H002E, \H002E>>, <<\H003A, \H003A>>, <<\H005E, \H005E>>,
      <<\H0060, \H0060>>, <<\H00A8, \H00A8>>, <<\H00AD, \H00AD>>, <<\H00AF, \H00AF>>,
      <<\H00B4, \H00B4>>, <<\H00B7, \H00B8>>, <<\H02B0, \H036F>>, <<\H0374, \H0375>>,
      <<\H037A, \H037A>>, <<\H0384, \H0385>>, <<\H0387, \H0387>>, <<\H0483, \H0489>>,
      <<\H0559, \H0559>>, <<\H055F, \H055F>>, <<\H0591, \H05BD>>, <<\H05BF, \H05BF>>,
      <<\H05C1, \H05C2>>, <<\H05C4, \H05C5>>, <<\H05C7, \H05C7>>, <<\H05F4, \H05F4>>,
      <<\H0600, \H0605>>, <<\H0610, \H061A>>, <<\H061C, \H061C>>, <<\H0640, \H0640>>,
      <<\H064B, \H065F>>, <<\H0670, \H0670>>, <<\H06D6, \H06DD>>, <<\H06DF, \H06E8>>,
      <<\H06EA, \H06ED>>, <<\H070F, \H070F>>, <<\H0711, \H0711>>, <<\H0730, \H074A>>,
      <<\H07A6, \H07B0>>, <<\H07EB, \H07F5>>, <<\H07FA, \H07FA>>, <<\H07FD, \H07FD>>,
      <<\H0816, \H082D>>, <<\H0859, \H085B>>, <<\H0888, \H0888>>, <<\H0890, \H0891>>,
      <<\H0898, \H089F>>, <<\H08C9, \H0902>>, <<\H093A, \H093A>>, <<\H093C, \H093C>>,
      <<\H0941, \H0948>>, <<\H094D, \H094D>>, <<\H0951, \H0957>>, <<\H0962, \H0963>>,
      <<\H0971, \H0971>>, <<\H0981, \H0981>>, <<\H09BC, \H09BC>>, <<\H09C1, \H09C4>>,
      <<\H09CD, \H09CD>>, <<\H09E2, \H09E3>>, <<\H09FE, \H09FE>>, <<\H0A01, \H0A02>>,
      <<\H0A3C, \H0A3C>>, <<\H0A41, \H0A42>>, <<\H0A47, \H0A48>>, <<\H0A4B, \H0A4D>>,
      <<\H0A51, \H0A51>>, <<\H0A70, \H0A71>>, <<\H0A75, \H0A75>>, <<\H0A81, \H0A82>>,
      <<\H0ABC, \H0ABC>>, <<\H0AC1, \H0AC5>>, <<\H0AC7, \H0AC8>>, <<\H0ACD, \H0ACD>>,
      <<\H0AE2, \H0AE3>>, <<\H0AFA, \H0AFF>>, <<\H0B01, \H0B01>>, <<\H0B3C, \H0B3C>>,
      <<\H0B3F, \H0B3F>>, <<\H0B41, \H0B44>>, <<\H0B4D, \H0B4D>>, <<\H0B55, \H0B56>>,
      <<\H0B62, \H0B63>>, <<\H0B82, \H0B82>>, <<\H0BC0, \H0BC0>>, <<\H0BCD, \H0BCD>>,
      <<\H0C00, \H0C00>>, <<\H0C04, \H0C04>>, <<\H0C3C, \H0C3C>>, <<\H0C3E, \H0C40>>,
      <<\H0C46, \H0C48>>, <<\H0C4A, \H0C4D>>, <<\H0C55, \H0C56>>, <<\H0C62, \H0C63>>,
      <<\H0C81, \H0C81>>, <<\H0CBC, \H0CBC>>, <<\H0CBF, \H0CBF>>, <<\H0CC6, \H0CC6>>,
      <<\H0CCC, \H0CCD>>, <<\H0CE2, \H0CE3>>, <<\H0D00, \H0D01>>, <<\H0D3B, \H0D3C>>,
      <<\H0D41, \H0D44>>, <<\H0D4D, \H0D4D>>, <<\H0D62, \H0D63>>, <<\H0D81, \H0D81>>,
      <<\H0DCA, \H0DCA>>, <<\H0DD2, \H0DD4>>, <<\H0DD6, \H0DD6>>, <<\H0E31, \H0E31>>,
      <<\H0E34, \H0E3A>>, <<\H0E46, \H0E4E>>, <<\H0EB1, \H0EB1>>, <<\H0EB4, \H0EBC>>,
      <<\H0EC6, \H0EC6>>, <<\H0EC8, \H0ECD>>, <<\H0F18, \H0F19>>, <<\H0F35, \H0F35>>,
      <<\H0F37, \H0F37>>, <<\H0F39, \H0F39>>, <<\H0F71, \H0F7E>>, <<\H0F80, \H0F84>>,
      <<\H0F86, \H0F87>>, <<\H0F8D, \H0F97>>, <<\H0F99, \H0FBC>>, <<\H0FC6, \H0FC6>>,
      <<\H102D, \H1030>>, <<\H1032, \H1037>>, <<\H1039, \H103A>>, <<\H103D, \H103E>>,
      <<\H1058, \H1059>>, <<\H105E, \H1060>>, <<\H1071, \H1074>>, <<\H1082, \H1082>>,
      <<\H1085, \H1086>>, <<\H108D, \H108D>>, <<\H109D, \H109D>>, <<\H10FC, \H10FC>>,
      <<\H135D, \H135F>>, <<\H1712, \H1714>>, <<\H1732, \H1733>>, <<\H1752, \H1753>>,
      <<\H1772, \H1773>>, <<\H17B4, \H17B5>>, <<\H17B7, \H17BD>>, <<\H17C6, \H17C6>>,
      <<\H17C9, \H17D3>>, <<\H17D7, \H17D7>>, <<\H17DD, \H17DD>>, <<\H180B, \H180F>>,
      <<\H1843, \H1843>>, <<\H1885, \H1886>>, <<\H18A9, \H18A9>>, <<\H1920, \H1922>>,
      <<\H1927, \H1928>>, <<\H1932, \H1932>>, <<\H1939, \H193B>>, <<\H1A17, \H1A18>>,
      <<\H1A1B, \H1A1B>>, <<\H1A56, \H1A56>>, <<\H1A58, \H1A5E>>, <<\H1A60, \H1A60>>,
      <<\H1A62, \H1A62>>, <<\H1A65, \H1A6C>>, <<\H1A73, \H1A7C>>, <<\H1A7F, \H1A7F>>,
      <<\H1AA7, \H1AA7>>, <<\H1AB0, \H1ACE>>, <<\H1B00, \H1B03>>, <<\H1B34, \H1B34>>,
      <<\H1B36, \H1B3A>>, <<\H1B3C, \H1B3C>>, <<\H1B42, \H1B42>>, <<\H1B6B, \H1B73>>,
      <<\H1B80, \H1B81>>, <<\H1BA2, \H1BA5>>, <<\H1BA8, \H1BA9>>, <<\H1BAB, \H1BAD>>,
      <<\H1BE6, \H1BE6>>, <<\H1BE8, \H1BE9>>, <<\H1BED, \H1BED>>, <<\H1BEF, \H1BF1>>,
      <<\H1C2C, \H1C33>>, <<\H1C36, \H1C37>>, <<\H1C78, \H1C7D>>, <<\H1CD0, \H1CD2>>,
      <<\H1CD4, \H1CE0>>, <<\H1CE2, \H1CE8>>, <<\H1CED, \H1CED>>, <<\H1CF4, \H1CF4>>,
      <<\H1CF8, \H1CF9>>, <<\H1D2C, \H1D6A>>, <<\H1D78, \H1D78>>, <<\H1D9B, \H1DFF>>,
      <<\H1FBD, \H1FBD>>, <<\H1FBF, \H1FC1>>, <<\H1FCD, \H1FCF>>, <<\H1FDD, \H1FDF>>,
      <<\H1FED, \H1FEF>>, <<\H1FFD, \H1FFE>>, <<\H200B, \H200F>>, <<\H2018, \H2019>>,
      <<\H2024, \H2024>>, <<\H2027, \H2027>>, <<\H202A, \H202E>>, <<\H2060, \H2064>>,
      <<\H2066, \H206F>>, <<\H2071, \H2071>>, <<\H207F, \H207F>>, <<\H2090, \H209C>>,
      <<\H20D0, \H20F0>>, <<\H2C7C, \H2C7D>>, <<\H2CEF, \H2CF1>>, <<\H2D6F, \H2D6F>>,
      <<\H2D7F, \H2D7F>>, <<\H2DE0, \H2DFF>>, <<\H2E2F, \H2E2F>>, <<\H3005, \H3005>>,
      <<\H302A, \H302D>>, <<\H3031, \H3035>>, <<\H303B, \H303B>>, <<\H3099, \H309E>>,
      <<\H30FC, \H30FE>>, <<\HA015, \HA015>>, <<\HA4F8, \HA4FD>>, <<\HA60C, \HA60C>>,
      <<\HA66F, \HA672>>, <<\HA674, \HA67D>>, <<\HA67F, \HA67F>>, <<\HA69C, \HA69F>>,
      <<\HA6F0, \HA6F1>>, <<\HA700, \HA721>>, <<\HA770, \HA770>>, <<\HA788, \HA78A>>,
      <<\HA7F2, \HA7F4>>, <<\HA7F8, \HA7F9>>, <<\HA802, \HA802>>, <<\HA806, \HA806>>,
      <<\HA80B, \HA80B>>, <<\HA825, \HA826>>, <<\HA82C, \HA82C>>, <<\HA8C4, \HA8C5>>,
      <<\HA8E0, \HA8F1>>, <<\HA8FF, \HA8FF>>, <<\HA926, \HA92D>>, <<\HA947, \HA951>>,
      <<\HA980, \HA982>>, <<\HA9B3, \HA9B3>>, <<\HA9B6, \HA9B9>>, <<\HA9BC, \HA9BD>>,
      <<\HA9CF, \HA9CF>>, <<\HA9E5, \HA9E6>>, <<\HAA29, \HAA2E>>, <<\HAA31, \HAA32>>,
      <<\HAA35, \HAA36>>, <<\HAA43, \HAA43>>, <<\HAA4C, \HAA4C>>, <<\HAA70, \HAA70>>,
      <<\HAA7C, \HAA7C>>, <<\HAAB0, \HAAB0>>, <<\HAAB2, \HAAB4>>, <<\HAAB7, \HAAB8>>,
      <<\HAABE, \HAABF>>, <<\HAAC1, \HAAC1>>, <<\HAADD, \HAADD>>, <<\HAAEC, \HAAED>>,
      <<\HAAF3, \HAAF4>>, <<\HAAF6, \HAAF6>>, <<\HAB5B, \HAB5F>>, <<\HAB69, \HAB6B>>,
      <<\HABE5, \HABE5>>, <<\HABE8, \HABE8>>, <<\HABED, \HABED>>, <<\HFB1E, \HFB1E>>,
      <<\HFBB2, \HFBC2>>, <<\HFE00, \HFE0F>>, <<\HFE13, \HFE13>>, <<\HFE20, \HFE2F>>,
      <<\HFE52, \HFE52>>, <<\HFE55, \HFE55>>, <<\HFEFF, \HFEFF>>, <<\HFF07, \HFF07>>,
      <<\HFF0E, \HFF0E>>, <<\HFF1A, \HFF1A>>, <<\HFF3E, \HFF3E>>, <<\HFF40, \HFF40>>,
      <<\HFF70, \HFF70>>, <<\HFF9E, \HFF9F>>, <<\HFFE3, \HFFE3>>, <<\HFFF9, \HFFFB>>,
      <<\H101FD, \H101FD>>, <<\H102E0, \H102E0>>, <<\H10376, \H1037A>>, <<\H10780, \H10785>>,
      <<\H10787, \H107B0>>, <<\H107B2, \H107BA>>, <<\H10A01, \H10A03>>, <<\H10A05, \H10A06>>,
      <<\H10A0C, \H10A0F>>, <<\H10A38, \H10A3A>>, <<\H10A3F, \H10A3F>>, <<\H10AE5, \H10AE6>>,
      <<\H10D24, \H10D27>>, <<\H10EAB, \H10EAC>>, <<\H10F46, \H10F50>>, <<\H10F82, \H10F85>>,
      <<\H11001, \H11001>>, <<\H11038, \H11046>>, <<\H11070, \H11070>>, <<\H11073, \H11074>>,
      <<\H1107F, \H11081>>, <<\H110B3, \H110B6>>, <<\H110B9, \H110BA>>, <<\H110BD, \H110BD>>,
      <<\H110C2, \H110C2>>, <<\H110CD, \H110CD>>, <<\H11100, \H11102>>, <<\H11127, \H1112B>>,
      <<\H1112D, \H11134>>, <<\H11173, \H11173>>, <<\H11180, \H11181>>, <<\H111B6, \H111BE>>,
      <<\H111C9, \H111CC>>, <<\H111CF, \H111CF>>, <<\H1122F, \H11231>>, <<\H11234, \H11234>>,
      <<\H11236, \H11237>>, <<\H1123E, \H1123E>>, <<\H112DF, \H112DF>>, <<\H112E3, \H112EA>>,
      <<\H11300, \H11301>>, <<\H1133B, \H1133C>>, <<\H11340, \H11340>>, <<\H11366, \H1136C>>,
      <<\H11370, \H11374>>, <<\H11438, \H1143F>>, <<\H11442, \H11444>>, <<\H11446, \H11446>>,
      <<\H1145E, \H1145E>>, <<\H114B3, \H114B8>>, <<\H114BA, \H114BA>>, <<\H114BF, \H114C0>>,
      <<\H114C2, \H114C3>>, <<\H115B2, \H115B5>>, <<\H115BC, \H115BD>>, <<\H115BF, \H115C0>>,
      <<\H115DC, \H115DD>>, <<\H11633, \H1163A>>, <<\H1163D, \H1163D>>, <<\H1163F, \H11640>>,
      <<\H116AB, \H116AB>>, <<\H116AD, \H116AD>>, <<\H116B0, \H116B5>>, <<\H116B7, \H116B7>>,
      <<\H1171D, \H1171F>>, <<\H11722, \H11725>>, <<\H11727, \H1172B>>, <<\H1182F, \H11837>>,
      <<\H11839, \H1183A>>, <<\H1193B, \H1193C>>, <<\H1193E, \H1193E>>, <<\H11943, \H11943>>,
      <<\H119D4, \H119D7>>, <<\H119DA, \H119DB>>, <<\H119E0, \H119E0>>, <<\H11A01, \H11A0A>>,
      <<\H11A33, \H11A38>>, <<\H11A3B, \H11A3E>>, <<\H11A47, \H11A47>>, <<\H11A51, \H11A56>>,
      <<\H11A59, \H11A5B>>, <<\H11A8A, \H11A96>>, <<\H11A98, \H11A99>>, <<\H11C30, \H11C36>>,
      <<\H11C38, \H11C3D>>, <<\H11C3F, \H11C3F>>, <<\H11C92, \H11CA7>>, <<\H11CAA, \H11CB0>>,
      <<\H11CB2, \H11CB3>>, <<\H11CB5, \H11CB6>>, <<\H11D31, \H11D36>>, <<\H11D3A, \H11D3A>>,
      <<\H11D3C, \H11D3D>>, <<\H11D3F, \H11D45>>, <<\H11D47, \H11D47>>, <<\H11D90, \H11D91>>,
      <<\H11D95, \H11D95>>, <<\H11D97, \H11D97>>, <<\H11EF3, \H11EF4>>, <<\H13430, \H13438>>,
      <<\H16AF0, \H16AF4>>, <<\H16B30, \H16B36>>, <<\H16B40, \H16B43>>, <<\H16F4F, \H16F4F>>,
      <<\H16F8F, \H16F9F>>, <<\H16FE0, \H16FE1>>, <<\H16FE3, \H16FE4>>, <<\H1AFF0, \H1AFF3>>,
      <<\H1AFF5, \H1AFFB>>, <<\H1AFFD, \H1AFFE>>, <<\H1BC9D, \H1BC9E>>, <<\H1BCA0, \H1BCA3>>,
      <<\H1CF00, \H1CF2D>>, <<\H1CF30, \H1CF46>>, <<\H1D167, \H1D169>>, <<\H1D173, \H1D182>>,
      <<\H1D185, \H1D18B>>, <<\H1D1AA, \H1D1AD>>, <<\H1D242, \H1D244>>, <<\H1DA00, \H1DA36>>,
      <<\H1DA3B, \H1DA6C>>, <<\H1DA75, \H1DA75>>, <<\H1DA84, \H1DA84>>, <<\H1DA9B, \H1DA9F>>,
      <<\H1DAA1, \H1DAAF>>, <<\H1E000, \H1E006>>, <<\H1E008, \H1E018>>, <<\H1E01B, \H1E021>>,
      <<\H1E023, \H1E024>>, <<\H1E026, \H1E02A>>, <<\H1E130, \H1E13D>>, <<\H1E2AE, \H1E2AE>>,
      <<\H1E2EC, \H1E2EF>>, <<\H1E8D0, \H1E8D6>>, <<\H1E944, \H1E94B>>, <<\H1F3FB, \H1F3FF>>,
      <<\HE0001, \HE0001>>, <<\HE0020, \HE007F>>, <<\HE0100, \HE01EF>>>>

\* the characters str.isspace() accepts
Whitespace == UNION {SpaceRanges[k][1]..SpaceRanges[k][2] : k \in 1..Len(SpaceRanges)}

\* the whitespace int() skips: the separators U+001C to U+001F are not part
\* of it
IntWhitespace == Whitespace \ (28..31)

\* str.lower() on one character whose lower case is one character
LowerChar(c) ==
    IF c \in 65..90 THEN c + 32
    ELSE IF c < 192 THEN c
    ELSE LET hits == {k \in 1..Len(LowerRules) :
                         /\ LowerRules[k][1] <= c
                         /\ c <= LowerRules[k][2]
                         /\ (c - LowerRules[k][1]) % LowerRules[k][3] = 0}
         IN  IF hits = {} THEN c
             ELSE c + LowerRules[CHOOSE k \in hits : TRUE][4]

\* str.lower() on one character out of context: U+0130 becomes two
\* characters
LowerFull(c) == IF c = \H0130 THEN <<\H0069, \H0307>> ELSE <<LowerChar(c)>>

CaseIgnorable(c) == InRanges(c, CaseIgnorableRanges)
Cased(c) == InRanges(c, CasedRanges)

\* the capital sigma at position k of s takes the final form U+03C2: a cased
\* character precedes it and none follows it, the case-ignorable characters
\* skipped on both sides
FinalSigma(s, k) ==
    LET before == {j \in 1..(k - 1) : ~CaseIgnorable(s[j])}
        after == {j \in (k + 1)..Len(s) : ~CaseIgnorable(s[j])}
    IN  /\ before # {}
        /\ Cased(s[CHOOSE j \in before : \A h \in before : h <= j])
        /\ \/ after = {}
           \/ ~Cased(s[CHOOSE j \in after : \A h \in after : j <= h])

RECURSIVE LowerFrom(_, _)
LowerFrom(s, k) ==
    IF k > Len(s) THEN <<>>
    ELSE (IF s[k] = \H03A3 /\ FinalSigma(s, k) THEN <<\H03C2>>
          ELSE LowerFull(s[k])) \o LowerFrom(s, k + 1)

\* str.lower()
Lower(s) == LowerFrom(s, 1)

\* str.rstrip(): drop the trailing whitespace characters
RECURSIVE RStrip(_)
RStrip(s) ==
    IF s = <<>> THEN s
    ELSE IF s[Len(s)] \in Whitespace THEN RStrip(SubSeq(s, 1, Len(s) - 1))
    ELSE s

\* str.split(): the maximal runs of non-whitespace characters, in order
RECURSIVE SplitFrom(_, _, _, _)
SplitFrom(s, k, cur, acc) ==
    IF k > Len(s) THEN (IF cur = <<>> THEN acc ELSE Append(acc, cur))
    ELSE IF s[k] \in Whitespace
         THEN SplitFrom(s, k + 1, <<>>, IF cur = <<>> THEN acc ELSE Append(acc, cur))
         ELSE SplitFrom(s, k + 1, Append(cur, s[k]), acc)

Split(s) == SplitFrom(s, 1, <<>>, <<>>)

\* str.endswith(suffix)
EndsWith(s, suffix) ==
    /\ Len(s) >= Len(suffix)
    /\ SubSeq(s, Len(s) - Len(suffix) + 1, Len(s)) = suffix

\* str.startswith(prefix)
StartsWith(s, prefix) ==
    /\ Len(s) >= Len(prefix)
    /\ SubSeq(s, 1, Len(prefix)) = prefix

\* value of one digit character, -1 when it is not a digit of any base <= 16:
\* the decimal digits of every script, and the letters a to f and A to F
DigitVal(c) ==
    IF c \in 48..57 THEN c - 48
    ELSE IF c \in 97..102 THEN c - 87
    ELSE IF c \in 65..70 THEN c - 55
    ELSE IF c < 128 THEN -1
    ELSE LET runs10 == {k \in 1..Len(DecimalZeros) :
                           DecimalZeros[k] <= c /\ c <= DecimalZeros[k] + 9}
         IN  IF runs10 = {} THEN -1
             ELSE c - DecimalZeros[CHOOSE k \in runs10 : TRUE]

\* the whitespace int() skips on both sides of the literal
RECURSIVE IntStrip(_)
IntStrip(s) ==
    IF s = <<>> THEN s
    ELSE IF s[1] \in IntWhitespace THEN IntStrip(Tail(s))
    ELSE IF s[Len(s)] \in IntWhitespace THEN IntStrip(SubSeq(s, 1, Len(s) - 1))
    ELSE s

\* the letters that, after a leading zero, int(s, base) accepts as base prefix
Prefix16 == {Ord("x"), Ord("X")}
Prefix8 == {Ord("o"), Ord("O")}
Prefix2 == {Ord("b"), Ord("B")}
BasePrefix(base) ==
    CASE base = 16 -> Prefix16
      [] base = 8 -> Prefix8
      [] base = 2 -> Prefix2
      [] OTHER -> {}

\* the digit part of an integer literal: not empty, digits of the base,
\* single underscores allowed between two digits only
DigitsOK(d, base) ==
    /\ d # <<>>
    /\ \A k \in 1..Len(d) :
          IF d[k] = Ch_underscore
          THEN k > 1 /\ k < Len(d) /\ d[k - 1] # Ch_underscore
          ELSE DigitVal(d[k]) >= 0 /\ DigitVal(d[k]) < base

\* sys.int_info.default_max_str_digits of CPython 3.11: the longest decimal
\* text int() and str() convert
int_max_str_digits == 4300

\* the bases int() converts without a limit on the number of digits
BinaryBases == {2, 4, 8, 16, 32}

\* the number of digits of a digit part, underscores not counted
DigitCount(d) == Cardinality({k \in 1..Len(d) : d[k] # Ch_underscore})

\* the position of the first digit of a digit part that is not a zero, one
\* past the end when there is none
FirstNonZero(d) ==
    LET nz == {k \in 1..Len(d) : d[k] # Ch_underscore /\ DigitVal(d[k]) # 0}
    IN  IF nz = {} THEN Len(d) + 1
        ELSE CHOOSE k \in nz : \A h \in nz : k <= h

\* the value of a digit part from position k on, underscores skipped
RECURSIVE DigitsValue(_, _, _, _)
DigitsValue(d, base, k, acc) ==
    IF k > Len(d) THEN acc
    ELSE IF d[k] = Ch_underscore THEN DigitsValue(d, base, k + 1, acc)
    ELSE DigitsValue(d, base, k + 1, acc * base + DigitVal(d[k]))

\* the literal starts with a sign
Signed(t) == t # <<>> /\ t[1] \in {Ch_plus, Ch_minus}

\* the literal without its sign
Unsigned(t) == IF Signed(t) THEN Tail(t) ELSE t

\* the factor of the sign of the literal
SignOf(t) == IF Signed(t) /\ t[1] = Ch_minus THEN -1 ELSE 1

\* the unsigned literal starts with the prefix of the base: a digit of value
\* 0 and the letter of the base
HasPrefix(u, base) ==
    Len(u) >= 2 /\ DigitVal(u[1]) = 0 /\ u[2] \in BasePrefix(base)

\* the digit part of an unsigned literal: what follows the prefix and one
\* underscore after it
DigitPart(u, base) ==
    IF ~HasPrefix(u, base) THEN u
    ELSE IF Len(u) >= 3 /\ u[3] = Ch_underscore THEN SubSeq(u, 4, Len(u))
    ELSE SubSeq(u, 3, Len(u))

\* the integer of a digit part and a sign; in a base that is no power of two
\* a digit part of more than int_max_str_digits digits is refused
ParseDigits(e, base, sign) ==
    IF ~DigitsOK(e, base) THEN [exc |-> "ValueError", val |-> 0]
    ELSE IF base \notin BinaryBases /\ DigitCount(e) > int_max_str_digits
    THEN [exc |-> "ValueError", val |-> 0]
    ELSE [exc |-> "", val |-> sign * DigitsValue(e, base, FirstNonZero(e), 0)]

\* the integer of a literal without surrounding whitespace
ParseStripped(t, base) ==
    ParseDigits(DigitPart(Unsigned(t), base), base, SignOf(t))

\* int(s, base), base # 0: surrounding whitespace, an optional sign, an
\* optional prefix of the base with an optional underscore after it, then
\* the digit part.  The result is a record: exc is "" and val the integer,
\* or exc is "ValueError".
ParseInt(s, base) == ParseStripped(IntStrip(s), base)

\* the character of a digit 0..9
DecDigit(d) == Ch_0 + d

\* the decimal text of n: a minus sign and the magnitude for a negative n
RECURSIVE DecText(_)
DecText(n) ==
    IF n < 0 THEN <<Ch_minus>> \o DecText(0 - n)
    ELSE IF n < 10 THEN <<DecDigit(n)>>
    ELSE Append(DecText(n \div 10), DecDigit(n % 10))

\* '{:b}'.format(n): a minus sign and the magnitude for a negative n
RECURSIVE ToBin(_)
ToBin(n) ==
    IF n < 0 THEN <<Ch_minus>> \o ToBin(0 - n)
    ELSE IF n < 2 THEN <<DecDigit(n)>>
    ELSE Append(ToBin(n \div 2), DecDigit(n % 2))

\* zeros put in front of s until it is width characters long
RECURSIVE ZPad(_, _)
ZPad(s, width) == IF Len(s) >= width THEN s ELSE ZPad(<<Ch_0>> \o s, width)

\* str.zfill(width): a leading sign stays first, the zeros follow it
ZFill(s, width) ==
    IF Len(s) >= width THEN s
    ELSE IF s # <<>> /\ s[1] \in {Ch_plus, Ch_minus}
    THEN <<s[1]>> \o ZPad(Tail(s), width - 1)
    ELSE ZPad(s, width)

(***************************************************************************)
(* Exceptions of the helpers.                                              *)
(***************************************************************************)
\* what a helper yields in place of a string when it raises: no string
\* holds a negative code point
ValueErr == <<-1>>
IndexErr == <<-2>>
FormatErr == <<-3>>

\* the name of the exception
ExcName(marker) ==
    CASE marker = ValueErr -> "ValueError"
      [] marker = IndexErr -> "IndexError"
      [] marker = FormatErr -> "Exception"

\* str(n): the decimal text of n, ValueError when n has more than
\* int_max_str_digits digits
ToDecStr(n) ==
    LET text == DecText(n)
        digits == IF n < 0 THEN Len(text) - 1 ELSE Len(text)
    IN  IF digits > int_max_str_digits THEN ValueErr ELSE text

(***************************************************************************)
(* Dicts.                                                                  *)
(***************************************************************************)
EmptyDict == [k \in {} |-> 0]

\* d[key] = val
Put(d, key, val) == [k \in (DOMAIN d) \cup {key} |-> IF k = key THEN val ELSE d[k]]

(***************************************************************************)
(* Tokens, file names and the instruction tables handed to the constructor.*)
(***************************************************************************)
T_org == Str("org")
T_end == Str("end")
T_hex == Str("hex")
T_dec == Str("dec")
T_lda == Str("lda")
T_add == Str("add")
T_cla == Str("cla")
T_inp == Str("inp")

PathNone == <<>>
PathAsm == Str("p.asm")
PathS == Str("p.S")
PathTxt == Str("p.txt")
Paths == {PathNone, PathAsm, PathS, PathTxt}

\* the two accepted file name suffixes
ExtAsm == Str(".asm")
ExtS == Str(".S")

\* memory-reference, register-reference and input-output tables as
\* __load_table returns them for the Basic Computer's table files
mri_table == (T_lda :> Str("010")) @@ (T_add :> Str("001"))
rri_table == (T_cla :> Str("0111100000000000"))
ioi_table == (T_inp :> Str("1111100000000000"))

pseudo_table == {T_org, T_end, T_hex, T_dec}

(***************************************************************************)
(* The raw source lines the model's files are made of.                     *)
(***************************************************************************)
L_lda_x == Str("lda x\n")
L_x_dec == Str("x, dec 25\n")
L_add_x_I == Str("ADD x I\n")
L_add_1f == Str("add 1f\n")
L_org_64 == Str("org 64\n")
L_org_fff == Str("org fff\n")
L_end == Str("end\n")
L_x_end == Str("x, end\n")
L_x_org == Str("x, org 64\n")
L_hex_19 == Str("hex 19\n")
\* CLA, a vertical tab, the line end
L_cla == Str("CLA") \o <<\H000B>> \o Str("\n")
L_inp_c == Str("inp /c\n")
\* an unknown mnemonic: F, the capital B with hook U+0181, O
L_foo == Str("F") \o <<\H0181>> \o Str("O\n")
L_blank == Str("\n")
L_comment == Str("/ c\n")
L_org_neg == Str("org -1\n")
L_add_0x == Str("ADD 0x_1F\n")

RawLines ==
    {L_lda_x, L_x_dec, L_add_x_I, L_add_1f, L_org_64, L_org_fff, L_end,
     L_x_end, L_x_org, L_hex_19, L_cla, L_inp_c, L_foo, L_blank, L_comment,
     L_org_neg, L_add_0x}

ReuseLines == {L_lda_x, L_x_dec}

\* a file is the sequence of its lines, as f.readlines() returns it
Sources == UNION {[1..n -> RawLines] : n \in 0..MaxLines}
ReuseSources == UNION {[1..n -> ReuseLines] : n \in 0..MaxReuseLines}

(***************************************************************************)
(* The assembler's pure helpers.                                           *)
(***************************************************************************)
\* read_code: one lower-cased token list per line
Tokenize(lines) == [k \in 1..Len(lines) |-> Split(Lower(RStrip(lines[k])))]

\* the extension test of read_code and assemble
HasAsmExt(path) == EndsWith(path, ExtAsm) \/ EndsWith(path, ExtS)

Islabel(string) == EndsWith(string, Comma)

\* one line of __rm_comments: cut at the first token that starts with '/'
RmCommentsLine(line) ==
    LET hits == {j \in 1..Len(line) : StartsWith(line[j], Slash)}
    IN  IF hits = {} THEN line
        ELSE SubSeq(line, 1, (CHOOSE j \in hits : \A h \in hits : j <= h) - 1)

RmComments(lines) == [k \in 1..Len(lines) |-> RmCommentsLine(lines[k])]

\* Format2bin without the zero padding
Format2binNoPad(num, numformat, format_bits) ==
    IF numformat = "dec"
    THEN IF ParseInt(num, 10).exc # "" THEN ValueErr
         ELSE ToBin(ParseInt(num, 10).val)
    ELSE IF numformat = "hex"
    THEN IF ParseInt(num, 16).exc # "" THEN ValueErr
         ELSE ToBin(ParseInt(num, 16).val)
    ELSE FormatErr

Format2bin(num, numformat, format_bits) ==
    IF numformat = "dec"
    THEN IF ParseInt(num, 10).exc # "" THEN ValueErr
         ELSE ZFill(ToBin(ParseInt(num, 10).val), format_bits)
    ELSE IF numformat = "hex"
    THEN IF ParseInt(num, 16).exc # "" THEN ValueErr
         ELSE ZFill(ToBin(ParseInt(num, 16).val), format_bits)
    ELSE FormatErr

\* effective_index of __second_pass (0-based, as in the source)
EffectiveIndex(line) == IF ~Islabel(line[1]) THEN 0 ELSE 1

\* LC_add of __second_pass, or the ValueError of str(LC)
LCAdd(lc) ==
    IF ToDecStr(lc) = ValueErr THEN ValueErr
    ELSE Format2bin(ToDecStr(lc), "dec", 12)

\* int(self.__asm[i][-1], 16) of an org line in __first_pass
OrgLC1(line) == ParseInt(line[Len(line)], 16)

\* OrgLC2 reading the operand as a decimal number
OrgLC2Dec(line) == ParseInt(line[Len(line)], 10)

\* int(self.__asm[i][-1], 16) of an org line in __second_pass
OrgLC2(line) == ParseInt(line[Len(line)], 16)

\* the literal the last token is compared with to detect indirection
IndirectLiteral == Str("I")

\* MriWord formatting the location of a label as if it were a hex literal
MriWordLabelAsHex(line, i_eff, table) ==
    LET opcode == mri_table[i_eff]
        last == line[Len(line)]
        ind == (last = IndirectLiteral)
        I == IF ind THEN <<Ch_1>> ELSE <<Ch_0>>
    IN  IF ind /\ Len(line) < 2 THEN IndexErr
        ELSE LET loc_eff == IF ind THEN line[Len(line) - 1] ELSE last
                 key == loc_eff \o Comma
                 field == IF key \in DOMAIN table
                          THEN IF ToDecStr(table[key]) = ValueErr THEN ValueErr
                               ELSE Format2bin(ToDecStr(table[key]), "hex", 12)
                          ELSE Format2bin(loc_eff, "hex", 12)
             IN  IF field = ValueErr THEN ValueErr
                 ELSE I \o opcode \o field

\* the word of a memory-reference line, or the exception it raises
MriWord(line, i_eff, table) ==
    LET opcode == mri_table[i_eff]
        last == line[Len(line)]
        ind == (last = IndirectLiteral)
        I == IF ind THEN <<Ch_1>> ELSE <<Ch_0>>
    IN  IF ind /\ Len(line) < 2 THEN IndexErr
        ELSE LET loc_eff == IF ind THEN line[Len(line) - 1] ELSE last
                 key == loc_eff \o Comma
                 field == IF key \in DOMAIN table
                          THEN IF ToDecStr(table[key]) = ValueErr THEN ValueErr
                               ELSE Format2bin(ToDecStr(table[key]), "dec", 12)
                          ELSE Format2bin(loc_eff, "hex", 12)
             IN  IF field = ValueErr THEN ValueErr
                 ELSE I \o opcode \o field

(***************************************************************************)
(* State.                                                                  *)
(***************************************************************************)
VARIABLES
    asm_set,               \* whether the attribute __asm exists
    asm,                   \* __asm: list of token lists
    address_symbol_table,  \* __address_symbol_table: label -> location
    bin,                   \* __bin: 12-bit location -> 16-bit word
    file,                  \* the lines of the source file on disk
    inp,                   \* argument of the assemble call
    pc,                    \* "idle", "rm", "pass1", "pass2", "done", "error"
    i,                     \* loop index of the running pass (1-based)
    LC,                    \* location counter of the running pass
    err,                   \* the exception that ended the call, "" if none
    lc1_at,                \* history: LC at each line pass 1 has entered
    lc2_at,                \* history: LC at each line pass 2 has entered
    runs                   \* history: number of assemble calls made

vars == <<asm_set, asm, address_symbol_table, bin, file, inp, pc, i, LC, err,
          lc1_at, lc2_at, runs>>

\* __init__: asmpath is either omitted (__asm is never assigned) or names
\* the source file, which read_code loads.
InitWith(files) ==
    /\ file \in files
    /\ asm_set \in BOOLEAN
    /\ asm = IF asm_set THEN Tokenize(file) ELSE <<>>
    /\ address_symbol_table = EmptyDict
    /\ bin = EmptyDict
    /\ inp = PathNone
    /\ pc = "idle"
    /\ i = 1
    /\ LC = 0
    /\ err = ""
    /\ lc1_at = <<>>
    /\ lc2_at = <<>>
    /\ runs = 0

Init == InitWith(Sources)

Goto(newpc, newi, newLC, newerr) ==
    /\ pc' = newpc
    /\ i' = newi
    /\ LC' = newLC
    /\ err' = newerr

Raise(kind) == Goto("error", i, LC, kind)

\* assemble(), lines 69-75: the entry checks and the optional load.  Every
\* accepted path names the one source file of the model.
Assemble(path) ==
    /\ pc = "idle"
    /\ inp' = path
    /\ runs' = runs + 1
    /\ lc1_at' = <<>>
    /\ lc2_at' = <<>>
    /\ IF ~asm_set
       THEN Raise("AttributeError") /\ UNCHANGED <<asm_set, asm>>
       ELSE IF asm = <<>> /\ path = PathNone
       THEN Raise("AssertionError: no assembly file provided")
            /\ UNCHANGED <<asm_set, asm>>
       ELSE IF path # PathNone /\ ~HasAsmExt(path)
       THEN Raise("AssertionError: file provided does not end with .asm or .S")
            /\ UNCHANGED <<asm_set, asm>>
       ELSE /\ asm' = IF asm = <<>> THEN Tokenize(file) ELSE asm
            /\ asm_set' = TRUE
            /\ Goto("rm", i, LC, "")
    /\ UNCHANGED <<address_symbol_table, bin, file>>

\* assemble(), line 77, and the start of __first_pass, line 137
RmCommentsStep ==
    /\ pc = "rm"
    /\ asm' = RmComments(asm)
    /\ Goto("pass1", 1, 0, "")
    /\ UNCHANGED <<asm_set, address_symbol_table, bin, file, inp, lc1_at,
                   lc2_at, runs>>

\* one iteration of the loop of __first_pass
FirstPassStep ==
    /\ pc = "pass1"
    /\ i <= Len(asm)
    /\ lc1_at' = Append(lc1_at, LC)
    /\ LET line == asm[i] IN
       IF line = <<>>
       THEN Raise("IndexError") /\ UNCHANGED address_symbol_table
       ELSE IF Islabel(line[1])
       THEN /\ address_symbol_table' = Put(address_symbol_table, line[1], LC)
            /\ Goto("pass1", i + 1, LC + 1, "")
       ELSE IF line[1] = T_org
       THEN /\ UNCHANGED address_symbol_table
            /\ IF OrgLC1(line).exc # ""
               THEN Raise(OrgLC1(line).exc)
               ELSE Goto("pass1", i + 1, OrgLC1(line).val, "")
       ELSE IF line[1] = T_end
       THEN /\ UNCHANGED address_symbol_table
            /\ Goto("pass2", 1, 0, "")
       ELSE /\ UNCHANGED address_symbol_table
            /\ Goto("pass1", i + 1, LC + 1, "")
    /\ UNCHANGED <<asm_set, asm, bin, file, inp, lc2_at, runs>>

\* the loop of __first_pass runs out; __second_pass starts, line 159
FirstPassExit ==
    /\ pc = "pass1"
    /\ i > Len(asm)
    /\ Goto("pass2", 1, 0, "")
    /\ UNCHANGED <<asm_set, asm, address_symbol_table, bin, file, inp,
                   lc1_at, lc2_at, runs>>

\* Store without the advance of the location counter
StoreNoAdvance(word) ==
    IF word \in {ValueErr, IndexErr, FormatErr}
    THEN Raise(ExcName(word)) /\ UNCHANGED bin
    ELSE /\ bin' = Put(bin, LCAdd(LC), word)
         /\ Goto("pass2", i + 1, LC, "")

\* the word a line stores in pass 2, with the exception markers
Store(word) ==
    IF word \in {ValueErr, IndexErr, FormatErr}
    THEN Raise(ExcName(word)) /\ UNCHANGED bin
    ELSE /\ bin' = Put(bin, LCAdd(LC), word)
         /\ Goto("pass2", i + 1, LC + 1, "")

\* one iteration of the loop of __second_pass
SecondPassStep ==
    /\ pc = "pass2"
    /\ i <= Len(asm)
    /\ lc2_at' = Append(lc2_at, LC)
    /\ LET line == asm[i] IN
       IF line = <<>> THEN Raise("IndexError") /\ UNCHANGED bin
       ELSE IF LCAdd(LC) = ValueErr THEN Raise("ValueError") /\ UNCHANGED bin
       ELSE IF EffectiveIndex(line) + 1 > Len(line)
       THEN Raise("IndexError") /\ UNCHANGED bin
       ELSE LET i_eff == line[EffectiveIndex(line) + 1]
                last == line[Len(line)]
            IN  IF i_eff \in pseudo_table
                THEN IF i_eff = T_org
                     THEN /\ UNCHANGED bin
                          /\ IF OrgLC2(line).exc # ""
                             THEN Raise(OrgLC2(line).exc)
                             ELSE Goto("pass2", i + 1, OrgLC2(line).val, "")
                     ELSE IF i_eff = T_end
                     THEN UNCHANGED bin /\ Goto("done", i, LC, "")
                     ELSE IF i_eff = T_dec
                     THEN Store(Format2bin(last, "dec", 16))
                     ELSE Store(Format2bin(last, "hex", 16))
                ELSE IF i_eff \in DOMAIN mri_table
                THEN Store(MriWord(line, i_eff, address_symbol_table))
                ELSE IF i_eff \in DOMAIN rri_table
                THEN Store(rri_table[i_eff])
                ELSE IF i_eff \in DOMAIN ioi_table
                THEN Store(ioi_table[i_eff])
                ELSE UNCHANGED bin /\ Goto("pass2", i + 1, LC + 1, "")
    /\ UNCHANGED <<asm_set, asm, address_symbol_table, file, inp, lc1_at, runs>>

\* the loop of __second_pass runs out; assemble returns __bin, line 85
SecondPassExit ==
    /\ pc = "pass2"
    /\ i > Len(asm)
    /\ Goto("done", i, LC, "")
    /\ UNCHANGED <<asm_set, asm, address_symbol_table, bin, file, inp,
                   lc1_at, lc2_at, runs>>

\* read_code(path) called by the user of an instance between assemble calls,
\* whether or not the last call raised: the file at path now holds the
\* lines src
ReadCode(path, src) ==
    /\ pc \in {"idle", "done", "error"}
    /\ runs < MaxRuns
    /\ IF ~HasAsmExt(path)
       THEN /\ Raise("AssertionError: file provided does not end with .asm or .S")
            /\ UNCHANGED <<asm_set, asm, file>>
       ELSE /\ file' = src
            /\ asm' = Tokenize(src)
            /\ asm_set' = TRUE
            /\ Goto("idle", i, LC, "")
    /\ UNCHANGED <<address_symbol_table, bin, inp, lc1_at, lc2_at, runs>>

\* one assemble call on a freshly constructed instance
Next ==
    \/ \E path \in Paths : Assemble(path)
    \/ RmCommentsStep
    \/ FirstPassStep
    \/ FirstPassExit
    \/ SecondPassStep
    \/ SecondPassExit

Spec == Init /\ [][Next]_vars

\* an instance that is reloaded and assembles again
InitReuse == InitWith(ReuseSources)

NextReuse ==
    \/ \E path \in Paths : Assemble(path)
    \/ RmCommentsStep
    \/ FirstPassStep
    \/ FirstPassExit
    \/ SecondPassStep
    \/ SecondPassExit
    \/ \E path \in {PathAsm, PathTxt}, src \in ReuseSources : ReadCode(path, src)

SpecReuse == InitReuse /\ [][NextReuse]_vars

TypeOK ==
    /\ asm_set \in BOOLEAN
    /\ pc \in {"idle", "rm", "pass1", "pass2", "done", "error"}
    /\ LC \in Int
    /\ i \in Nat \ {0}
    /\ (pc \in {"pass1", "pass2"} => i <= Len(asm) + 1)
    /\ runs \in 0..MaxRuns

(***************************************************************************)
(* Vocabulary of the properties.                                           *)
(***************************************************************************)
\* the instruction token of a line: the token after the label, if any
InstrTok(line) ==
    IF line = <<>> THEN <<>>
    ELSE IF ~Islabel(line[1]) THEN line[1]
    ELSE IF Len(line) >= 2 THEN line[2] ELSE <<>>

IsMriLine(line) == InstrTok(line) \in DOMAIN mri_table
IsOrgLine(line) == InstrTok(line) = T_org
IsEndLine(line) == InstrTok(line) = T_end
IsLabelLine(line) == line # <<>> /\ Islabel(line[1])

\* the lines that store a word when pass 2 completes them
Emitting(line) ==
    InstrTok(line) \in {T_dec, T_hex} \cup DOMAIN mri_table
                       \cup DOMAIN rri_table \cup DOMAIN ioi_table

LastTok(line) == line[Len(line)]

IsBits(s) == \A k \in 1..Len(s) : s[k] \in {Ch_0, Ch_1}

\* the number a string of bits denotes
BitsValue(s) == ParseInt(s, 2).val

\* s is the 12-bit binary encoding of n: twelve bits that denote n
Encodes12(s, n) == Len(s) = 12 /\ IsBits(s) /\ BitsValue(s) = n

\* s is n as the program writes a location or an address, whatever n is:
\* in binary, zero-filled to 12 characters and longer when n needs more; a
\* negative n as a minus sign followed by its zero-filled magnitude
Renders12(s, n) ==
    LET body == IF n < 0 THEN Tail(s) ELSE s
    IN  /\ Len(s) >= 12
        /\ (n < 0 => s[1] = Ch_minus)
        /\ IsBits(body)
        /\ body # <<>>
        /\ BitsValue(body) = (IF n < 0 THEN 0 - n ELSE n)
        /\ (Len(s) > 12 => body[1] = Ch_1)

\* the address field of a memory-reference word: what follows the
\* indirection bit and the three opcode bits
AddrField(word) == SubSeq(word, 5, Len(word))

\* the keys of the Binary Image under which location n is stored
KeysOf(n) == {key \in DOMAIN bin : Renders12(key, n)}

\* the indirection token of the language
IndirectTok == Str("i")

\* the line pass 2 entered last
Cur2 == Len(lc2_at)

\* the operand token names a label or is a hexadecimal literal
Resolvable(tok) ==
    \/ (tok \o Comma) \in DOMAIN address_symbol_table
    \/ ParseInt(tok, 16).exc = ""

\* the address an operand token stands for: the location of the label of
\* that name if there is one, else its value as a hexadecimal literal
ResolvedAddr(tok) ==
    IF (tok \o Comma) \in DOMAIN address_symbol_table
    THEN address_symbol_table[tok \o Comma]
    ELSE ParseInt(tok, 16).val

(***************************************************************************)
(* C1                                                                      *)
(***************************************************************************)
\* C1: when pass 2 has handled a memory-reference line whose operand can be
\* resolved, the word stored for it starts with bit 1 and carries the address
\* of the second-to-last token if the last token is `i`, and otherwise starts
\* with bit 0 and carries the address of the last token.
C1_IndirectBit ==
    (Cur2 >= 1 /\ IsMriLine(asm[Cur2])) =>
        LET line == asm[Cur2]
            indirect == LastTok(line) = IndirectTok
            operand == IF indirect THEN line[Len(line) - 1] ELSE LastTok(line)
        IN  Resolvable(operand) =>
                \E key \in KeysOf(lc2_at[Cur2]) :
                    /\ bin[key][1] = (IF indirect THEN Ch_1 ELSE Ch_0)
                    /\ Renders12(AddrField(bin[key]), ResolvedAddr(operand))

(***************************************************************************)
(* C2                                                                      *)
(***************************************************************************)
\* C2: no line that follows an `end` line (labelled or not) assigns a Symbol
\* Table entry in pass 1 or stores a Binary Image entry in pass 2.
C2_EndTerminates ==
    /\ \A j \in 1..Len(lc1_at) :
          IsLabelLine(asm[j]) => \A k \in 1..(j - 1) : ~IsEndLine(asm[k])
    /\ \A j \in 1..Len(lc2_at) :
          Emitting(asm[j]) => \A k \in 1..(j - 1) : ~IsEndLine(asm[k])

(***************************************************************************)
(* C3                                                                      *)
(***************************************************************************)
\* the lines on which pass 1 assigned the label
DeclsOf(label) == {k \in 1..Len(lc1_at) : asm[k] # <<>> /\ asm[k][1] = label}

\* the declarations of the label that no `end` line precedes
DeclsBeforeEnd(label) ==
    {k \in DeclsOf(label) : \A e \in 1..(k - 1) : ~IsEndLine(asm[e])}

\* the location pass 1 left for the label: that of its last assignment
Pass1Addr(label) ==
    lc1_at[CHOOSE k \in DeclsOf(label) : \A d \in DeclsOf(label) : d <= k]

\* the operand of a memory-reference line as the language defines it: the
\* token before a trailing indirection token, else the last token
Operand(line) ==
    IF LastTok(line) = IndirectTok /\ Len(line) >= 2
    THEN line[Len(line) - 1] ELSE LastTok(line)

\* the word pass 2 stored for the line it entered last
WordOfCur2 == bin[LCAdd(lc2_at[Cur2])]

\* C3 (as stated): when pass 2 has stored the word of a memory-reference
\* line whose operand is a label declared before `end`, the word is 16 bits
\* wide and its 12-bit address field is the binary encoding of the location
\* pass 1 gave that label, wherever the declaration stands relative to the
\* use.
C3_LabelField12 ==
    (Cur2 >= 1 /\ IsMriLine(asm[Cur2]) /\ pc # "error") =>
        LET label == Operand(asm[Cur2]) \o Comma
        IN  DeclsBeforeEnd(label) # {} =>
                /\ LCAdd(lc2_at[Cur2]) \in DOMAIN bin
                /\ Len(WordOfCur2) = 16
                /\ Encodes12(AddrField(WordOfCur2), Pass1Addr(label))

\* str(lc) does not raise: lc has at most int_max_str_digits digits
HasDecText(lc) == ToDecStr(lc) # ValueErr

\* C3 (amended): when pass 2 has handled a memory-reference line that
\* carries no indirection token and whose last token is a label declared
\* before `end`, the location pass 1 gave that label lies in 0..2^12-1 and
\* the location counter of the line itself has a decimal text (at most 4300
\* digits), the line has stored a 16-bit word whose 12-bit address field is
\* the binary encoding of the label's location, wherever the declaration
\* stands relative to the use.
C3_LabelResolution ==
    (Cur2 >= 1 /\ IsMriLine(asm[Cur2]) /\ LastTok(asm[Cur2]) # IndirectTok) =>
        LET label == LastTok(asm[Cur2]) \o Comma
        IN  (/\ DeclsBeforeEnd(label) # {}
             /\ Pass1Addr(label) \in 0..4095
             /\ HasDecText(lc2_at[Cur2])) =>
                /\ pc # "error"
                /\ LCAdd(lc2_at[Cur2]) \in DOMAIN bin
                /\ Len(WordOfCur2) = 16
                /\ Encodes12(AddrField(WordOfCur2), Pass1Addr(label))

\* a forward and a backward reference to the same label, both resolved to
\* the 12-bit encoding of 1
C3_Witness ==
    /\ pc = "done"
    /\ file = <<L_lda_x, L_x_dec, L_lda_x>>
    /\ DOMAIN bin = {Str("000000000000"), Str("000000000001"),
                     Str("000000000010")}
    /\ bin[Str("000000000000")] = Str("0010000000000001")
    /\ bin[Str("000000000010")] = Str("0010000000000001")

(***************************************************************************)
(* C4                                                                      *)
(***************************************************************************)
\* every entry of the image belongs to a word-emitting line pass 2 entered
OnlyEmittingLinesStore ==
    \A key \in DOMAIN bin :
        \E m \in 1..Cur2 : Emitting(asm[m]) /\ Renders12(key, lc2_at[m])

\* line j is the next word-emitting line after line k
NextEmitting(k, j) ==
    /\ k < j
    /\ Emitting(asm[j])
    /\ \A m \in (k + 1)..(j - 1) : ~Emitting(asm[m])

\* no org line stands between line k and line j
NoOrgBetween(k, j) == \A m \in (k + 1)..(j - 1) : ~IsOrgLine(asm[m])

\* the operand h of the org line k
OrgValue(k) == ParseInt(LastTok(asm[k]), 16).val

\* C4 (as stated): an org line adds no entry, and the next word-emitting line
\* after `org h`, h in 0..2^12-1 and no other org line in between, is stored
\* under the 12-bit binary encoding of h.
C4_OrgNextWord ==
    /\ OnlyEmittingLinesStore
    /\ (Cur2 >= 2 /\ pc # "error") =>
          \A k \in 1..(Cur2 - 1) :
              (/\ IsOrgLine(asm[k])
               /\ NextEmitting(k, Cur2)
               /\ NoOrgBetween(k, Cur2)
               /\ OrgValue(k) \in 0..4095) =>
                  /\ lc2_at[Cur2] = OrgValue(k)
                  /\ \E key \in DOMAIN bin : Encodes12(key, OrgValue(k))

\* C4 (amended): an org line adds no entry, and the next word-emitting line
\* after `org h`, no other org line in between, is stored, when pass 2
\* completes it without an exception, at location h + d,
\* d the number of lines between the two (lines that emit nothing but occupy
\* a word slot; d = 0 for a word-emitting line right after the org); when
\* h + d lies in 0..2^12-1 the key of the entry is the 12-bit binary
\* encoding of h + d.
C4_OrgNextLine ==
    /\ OnlyEmittingLinesStore
    /\ (Cur2 >= 2 /\ pc # "error") =>
          \A k \in 1..(Cur2 - 1) :
              (/\ IsOrgLine(asm[k])
               /\ NextEmitting(k, Cur2)
               /\ NoOrgBetween(k, Cur2)) =>
                  LET target == OrgValue(k) + (Cur2 - k - 1)
                  IN  /\ lc2_at[Cur2] = target
                      /\ LCAdd(target) \in DOMAIN bin
                      /\ target \in 0..4095 =>
                             Encodes12(LCAdd(target), target)

\* `org 64` followed by one instruction: the only entry is at 000001100100
C4_Witness ==
    /\ pc = "done"
    /\ file = <<L_org_64, L_cla>>
    /\ DOMAIN bin = {Str("000001100100")}

(***************************************************************************)
(* C5                                                                      *)
(***************************************************************************)
\* no labels, no directives: every line starts with a mnemonic of one of
\* the three tables, memory-reference lines with a hex literal operand
PlainSource(lines) ==
    \A m \in 1..Len(lines) :
        /\ lines[m] # <<>>
        /\ lines[m][1] \in DOMAIN mri_table \cup DOMAIN rri_table
                            \cup DOMAIN ioi_table
        /\ lines[m][1] \in DOMAIN mri_table =>
              ParseInt(Operand(lines[m]), 16).exc = ""

\* word is the encoding of the plain line
PlainWord(line, word) ==
    IF line[1] \in DOMAIN rri_table THEN word = rri_table[line[1]]
    ELSE IF line[1] \in DOMAIN ioi_table THEN word = ioi_table[line[1]]
    ELSE /\ SubSeq(word, 2, 4) = mri_table[line[1]]
         /\ Renders12(AddrField(word), ParseInt(Operand(line), 16).val)

\* C5: the image returned for a plain source of n lines has exactly n
\* entries, the m-th line's word under the 12-bit encoding of m - 1.
C5_Contiguous ==
    (pc = "done" /\ PlainSource(asm)) =>
        /\ Cardinality(DOMAIN bin) = Len(asm)
        /\ \A m \in 1..Len(asm) :
              \E key \in DOMAIN bin :
                  /\ Len(key) = 12
                  /\ IsBits(key)
                  /\ BitsValue(key) = m - 1
                  /\ PlainWord(asm[m], bin[key])

\* one line of each instruction class, three consecutive entries
C5_Witness ==
    /\ pc = "done"
    /\ file = <<L_add_1f, L_cla, L_inp_c>>
    /\ PlainSource(asm)
    /\ Cardinality(DOMAIN bin) = 3

(***************************************************************************)
(* C6                                                                      *)
(***************************************************************************)
\* C6: on an instance constructed without a source path, assemble() without
\* a path fails with 'no assembly file provided', and assemble(path) with an
\* accepted path does not fail at the entry but loads the file.
C6_AssembleWithoutPreload ==
    (~asm_set /\ runs >= 1) =>
        IF inp = PathNone
        THEN pc = "error" /\ err = "AssertionError: no assembly file provided"
        ELSE HasAsmExt(inp) => pc # "error"

(***************************************************************************)
(* C7                                                                      *)
(***************************************************************************)
\* C7: the image a call returns holds only entries stored by the lines of
\* the source of that call, and a label operand is resolved only if that
\* source declares the label.
C7_FreshPerRun ==
    pc = "done" =>
        /\ OnlyEmittingLinesStore
        /\ \A m \in 1..Cur2 :
              (IsMriLine(asm[m])
                  /\ (LastTok(asm[m]) \o Comma) \in DOMAIN address_symbol_table)
              => DeclsOf(LastTok(asm[m]) \o Comma) # {}

(***************************************************************************)
(* C8                                                                      *)
(***************************************************************************)
\* the value of the line's last token in the base lies in the set, or the
\* token is no literal of the base (the line then raises and stores nothing)
LastTokIn(line, base, set) ==
    ParseInt(LastTok(line), base).exc = ""
        => ParseInt(LastTok(line), base).val \in set

\* the same for an upper bound alone
LastTokBelow(line, base, bound) ==
    ParseInt(LastTok(line), base).exc = ""
        => ParseInt(LastTok(line), base).val < bound

\* a memory-reference line whose operand is taken as a hex literal
HasHexOperand(line) ==
    /\ IsMriLine(line)
    /\ (LastTok(line) \o Comma) \notin DOMAIN address_symbol_table

\* the operands as the claim bounds them: org operands and hex operands of
\* memory-reference lines below 2^12, dec and hex literals in 0..2^16-1
OperandsBelow ==
    \A m \in 1..Len(asm) :
        LET line == asm[m] IN
        /\ IsOrgLine(line) => LastTokBelow(line, 16, 4096)
        /\ HasHexOperand(line) => LastTokBelow(line, 16, 4096)
        /\ InstrTok(line) = T_dec => LastTokIn(line, 10, 0..65535)
        /\ InstrTok(line) = T_hex => LastTokIn(line, 16, 0..65535)

\* the same with the org and hex operands non-negative as well
OperandsInRange ==
    \A m \in 1..Len(asm) :
        LET line == asm[m] IN
        /\ IsOrgLine(line) => LastTokIn(line, 16, 0..4095)
        /\ HasHexOperand(line) => LastTokIn(line, 16, 0..4095)
        /\ InstrTok(line) = T_dec => LastTokIn(line, 10, 0..65535)
        /\ InstrTok(line) = T_hex => LastTokIn(line, 16, 0..65535)

\* the tables are well-formed: 3-bit opcodes, 16-bit words
TablesWellFormed ==
    /\ \A t \in DOMAIN mri_table : Len(mri_table[t]) = 3 /\ IsBits(mri_table[t])
    /\ \A t \in DOMAIN rri_table : Len(rri_table[t]) = 16 /\ IsBits(rri_table[t])
    /\ \A t \in DOMAIN ioi_table : Len(ioi_table[t]) = 16 /\ IsBits(ioi_table[t])

\* every key is 12 bits and every word 16 bits
WidthsOK ==
    \A key \in DOMAIN bin :
        /\ Len(key) = 12
        /\ IsBits(key)
        /\ Len(bin[key]) = 16
        /\ IsBits(bin[key])

\* the location counter of every word-emitting line pass 2 entered and the
\* location of every label are in 0..2^12-1
LocationsInRange ==
    /\ \A m \in 1..Cur2 : Emitting(asm[m]) => lc2_at[m] \in 0..4095
    /\ \A label \in DOMAIN address_symbol_table :
          address_symbol_table[label] \in 0..4095

\* C8 (as stated): with org and hex operands below 2^12, literals in
\* 0..2^16-1 and well-formed tables, every key of the image is 12 bits wide
\* and every word 16 bits wide.
C8_Widths == (OperandsBelow /\ TablesWellFormed) => WidthsOK

\* C8 (amended): the same, provided the org and hex operands are in
\* 0..2^12-1 and the location counter of every word-emitting line and the
\* location of every label stay in 0..2^12-1.
C8_WidthsLocationsInRange ==
    (OperandsInRange /\ TablesWellFormed /\ LocationsInRange) => WidthsOK

\* a label operand and the highest 12-bit location in one image
C8_Witness ==
    /\ pc = "done"
    /\ file = <<L_x_dec, L_org_fff, L_lda_x>>
    /\ OperandsInRange
    /\ LocationsInRange
    /\ Cardinality(DOMAIN bin) = 2
    /\ KeysOf(4095) # {}

(***************************************************************************)
(* C9                                                                      *)
(***************************************************************************)
\* C9: at every labelled line both passes have entered, the location pass 1
\* recorded for the label is the location counter pass 2 has at that line.
C9_PassesAgree ==
    \A j \in 1..Cur2 :
        (IsLabelLine(asm[j]) /\ j <= Len(lc1_at)) => lc1_at[j] = lc2_at[j]

(***************************************************************************)
(* C10                                                                     *)
(***************************************************************************)
\* C10: a line with zero tokens does not make assemble fail.
C10_EmptyLineInert ==
    ~(pc = "error" /\ err = "IndexError" /\ i <= Len(asm) /\ asm[i] = <<>>)

====
